---- MODULE Spec2Model ----
(***************************************************************************)
(* A model of zlog, a fluent builder over log/slog (src/zlog.go, the       *)
(* version at lines 165-759).  Strings are sequences of one-character      *)
(* strings, so that joining, prefix tests and path stripping are computed  *)
(* as the Go code computes them.                                           *)
(***************************************************************************)
EXTENDS Integers, Sequences, FiniteSets, TLC

VARIABLES
    globalConfig,   \* var globalConfig logConfig
    z,              \* the *zlogImpl of the chain being written, or NoLogger
    stack,          \* goroutine stack at the log call site, call site first
    sink,           \* records handed to the slog handler, in order
    status,         \* "running" | "panicked" | "exited"
    stdout,         \* lines the handlers have written to os.Stdout, in order
    exit,           \* how the process ended: exit code and what became of the flush
    last,           \* history: the operation that ran last, with its inputs
    rd,             \* a level constructor running step by step in a second goroutine
    wr,             \* a SetConfig store running word by word
    parked,         \* the builder and stack of each goroutine that is not running
    tid             \* the goroutine that is running

vars == <<globalConfig, z, stack, sink, stdout, status, exit, last, rd, wr, parked, tid>>

(***************************************************************************)
(* Bounds                                                                  *)
(***************************************************************************)
MaxStack == 3        \* longest application call stack
MaxDepthInput == 4   \* largest depth passed to MaxCallStackDepthConfig
MaxOpts == 1         \* most options passed to one Configure call
MaxAttrs == 2        \* most attributes accumulated on one builder
MaxSink == 2         \* most records emitted in one run
MaxDetail == 2       \* most detail segments passed to Segment
MaxKeys == 2         \* most keys passed to Context
ChainDepth == 10     \* frames of the deep call chain, main.main included
MaxCalls == 1        \* most attributes of a chain that a policy change interrupts

(***************************************************************************)
(* Strings                                                                 *)
(***************************************************************************)
Slash == "/"

HasPrefix(s, prefix) ==
    /\ Len(s) >= Len(prefix)
    /\ SubSeq(s, 1, Len(prefix)) = prefix

\* strings.LastIndex(s, "/"), 1-based; 0 stands for Go's -1
LastIndex(s, c) ==
    IF \E i \in 1..Len(s) : s[i] = c
    THEN CHOOSE i \in 1..Len(s) : s[i] = c /\ \A j \in (i+1)..Len(s) : s[j] # c
    ELSE 0

DigitChar == <<"0", "1", "2", "3", "4", "5", "6", "7", "8", "9">>

RECURSIVE FormatUint(_)
FormatUint(n) ==
    IF n < 10 THEN <<DigitChar[n + 1]>>
    ELSE FormatUint(n \div 10) \o <<DigitChar[(n % 10) + 1]>>

\* strconv.FormatInt(int64(line), 10)
FormatInt(n) == IF n < 0 THEN <<"-">> \o FormatUint(-n) ELSE FormatUint(n)

RECURSIVE Join(_, _)
\* strings.Join(elems, sep)
Join(elems, sep) ==
    IF Len(elems) = 0 THEN <<>>
    ELSE IF Len(elems) = 1 THEN elems[1]
    ELSE elems[1] \o sep \o Join(Tail(elems), sep)

(***************************************************************************)
(* Levels and the policy                                                   *)
(***************************************************************************)
Levels == {"Debug", "Info", "Warn", "Error"}
OtherLevel == "Other"      \* any slog.Level that is none of the four

\* levelConfig{} zero value
ZeroLevelConfig == [AutoSource |-> FALSE, AutoCallStack |-> FALSE, MaxCallStackDepth |-> 0]

\* logConfig{} zero value
ZeroLogConfig == [l \in Levels |-> ZeroLevelConfig]

defaultCallStackDepths == [Debug |-> 20, Info |-> 5, Warn |-> 5, Error |-> 10]

AutoSourceConfig(level, autoSource) ==
    [kind |-> "AutoSource", level |-> level, flag |-> autoSource, depth |-> 0]

AutoCallStackConfig(level, autoCallStack) ==
    [kind |-> "AutoCallStack", level |-> level, flag |-> autoCallStack, depth |-> 0]

MaxCallStackDepthConfig(level, maxDepth) ==
    [kind |-> "MaxCallStackDepth", level |-> level, flag |-> FALSE, depth |-> maxDepth]

\* AutoSourceConfig without its switch: the flag is set for every level
ApplyConfigurable_SourceForAllLevels(opt, conf) ==
    IF opt.level \notin Levels THEN conf
    ELSE IF opt.kind = "AutoSource"
         THEN [l \in Levels |-> [conf[l] EXCEPT !.AutoSource = opt.flag]]
    ELSE IF opt.kind = "AutoCallStack"
         THEN [conf EXCEPT ![opt.level].AutoCallStack = opt.flag]
    ELSE [conf EXCEPT ![opt.level].MaxCallStackDepth = opt.depth]

\* configFunc(&conf): the switch of each option falls through on an unknown level
ApplyConfigurable(opt, conf) ==
    IF opt.level \notin Levels THEN conf
    ELSE IF opt.kind = "AutoSource"
         THEN [conf EXCEPT ![opt.level].AutoSource = opt.flag]
    ELSE IF opt.kind = "AutoCallStack"
         THEN [conf EXCEPT ![opt.level].AutoCallStack = opt.flag]
    ELSE [conf EXCEPT ![opt.level].MaxCallStackDepth = opt.depth]

RECURSIVE ConfigureFrom(_, _)
ConfigureFrom(conf, configs) ==
    IF Len(configs) = 0 THEN conf
    ELSE ConfigureFrom(ApplyConfigurable(configs[1], conf), Tail(configs))

Configure(configs) == ConfigureFrom(ZeroLogConfig, configs)

\* getMaxCallStackDepth with the test written != 0: a negative depth is returned as is
getMaxCallStackDepth_NegativeKept(level) ==
    IF level \in Levels
    THEN IF globalConfig[level].MaxCallStackDepth # 0
         THEN globalConfig[level].MaxCallStackDepth
         ELSE defaultCallStackDepths[level]
    ELSE 5

\* getMaxCallStackDepth with the test written >= 0: a depth left at 0 is returned as is
getMaxCallStackDepth_ZeroKept(level) ==
    IF level \in Levels
    THEN IF globalConfig[level].MaxCallStackDepth >= 0
         THEN globalConfig[level].MaxCallStackDepth
         ELSE defaultCallStackDepths[level]
    ELSE 5

\* reads the global policy, as the code does
getMaxCallStackDepth(level) ==
    IF level \in Levels
    THEN IF globalConfig[level].MaxCallStackDepth > 0
         THEN globalConfig[level].MaxCallStackDepth
         ELSE defaultCallStackDepths[level]
    ELSE 5

(***************************************************************************)
(* Stack frames and the frame resolver                                     *)
(***************************************************************************)
\* what runtime.Caller and runtime.FuncForPC report for one frame:
\*   ok  - runtime.Caller's fourth result
\*   sym - FuncForPC(pc) # nil
Frame(ok, sym, fn, file, line) ==
    [ok |-> ok, sym |-> sym, fn |-> fn, file |-> file, line |-> line]

\* "a/p.f": a function of package p under module path a
FrameApp == Frame(TRUE, TRUE, <<"a", "/", "p", ".", "f">>, <<"/", "f", ".", "g", "o">>, 42)
\* "main.main": the process entry point
FrameMain == Frame(TRUE, TRUE, <<"m", "a", "i", "n", ".", "m", "a", "i", "n">>,
                   <<"/", "m", ".", "g", "o">>, 7)
\* "main.main.func1": a closure declared in main.main
FrameClosure == Frame(TRUE, TRUE,
                      <<"m", "a", "i", "n", ".", "m", "a", "i", "n", ".", "f", "u", "n", "c", "1">>,
                      <<"/", "m", ".", "g", "o">>, 9)
\* "main.mainLoop": another function of package main
FrameMainLoop == Frame(TRUE, TRUE,
                       <<"m", "a", "i", "n", ".", "m", "a", "i", "n", "L", "o", "o", "p">>,
                       <<"/", "m", ".", "g", "o">>, 20)
\* a frame whose pc has no function symbol
FrameNoSym == Frame(TRUE, FALSE, <<>>, <<"/", "c", ".", "s">>, 3)
\* a frame for which runtime.Caller reports ok = false
FrameLost == Frame(FALSE, FALSE, <<>>, <<>>, 0)

FrameKinds == {FrameApp, FrameMain, FrameClosure, FrameNoSym, FrameLost}

\* frames of the library itself, innermost first, as they sit on top of the
\* application's frames when getSourceString calls runtime.Caller
ZlogFile == <<"/", "z", ".", "g", "o">>
FrameGetSourceString == Frame(TRUE, TRUE, <<"g", "/", "z", "l", "o", "g", ".", "g", "S">>, ZlogFile, 735)
FrameWithSource == Frame(TRUE, TRUE, <<"g", "/", "z", "l", "o", "g", ".", "W", "S">>, ZlogFile, 507)
FrameWithSourceSkip == Frame(TRUE, TRUE, <<"g", "/", "z", "l", "o", "g", ".", "W", "S", "S">>, ZlogFile, 523)
FrameWithCallStack == Frame(TRUE, TRUE, <<"g", "/", "z", "l", "o", "g", ".", "W", "C">>, ZlogFile, 542)
FrameApplyAutoFeatures == Frame(TRUE, TRUE, <<"g", "/", "z", "l", "o", "g", ".", "a", "A">>, ZlogFile, 682)
FrameConstructor == Frame(TRUE, TRUE, <<"g", "/", "z", "l", "o", "g", ".", "N">>, ZlogFile, 397)

StopMarker == <<"#", "m", "a", "i", "n", ".", "m", "a", "i", "n">>

\* getSourceString leaving the function name empty when the pc has no symbol
getSourceString_EmptyPlaceholder(skip, callers) ==
    IF skip < 0 \/ skip + 1 > Len(callers) \/ ~callers[skip + 1].ok
    THEN [str |-> <<>>, ok |-> FALSE]
    ELSE LET fr == callers[skip + 1]
             name == fr.fn
             moduleSeparator == LastIndex(name, Slash)
             funcName == IF moduleSeparator # 0
                         THEN SubSeq(name, moduleSeparator + 1, Len(name))
                         ELSE name
         IN [str |-> <<"#">> \o funcName \o <<" ", "@", " ">> \o fr.file
                     \o <<":">> \o FormatInt(fr.line),
             ok |-> TRUE]

\* getSourceString(skip) run on the goroutine stack `callers`, whose first
\* element is getSourceString's own frame (runtime.Caller(0))
getSourceString(skip, callers) ==
    IF skip < 0 \/ skip + 1 > Len(callers) \/ ~callers[skip + 1].ok
    THEN [str |-> <<>>, ok |-> FALSE]
    ELSE LET fr == callers[skip + 1]
             name == fr.fn
             moduleSeparator == LastIndex(name, Slash)
             funcName == IF ~fr.sym THEN <<"?">>
                         ELSE IF moduleSeparator # 0
                              THEN SubSeq(name, moduleSeparator + 1, Len(name))
                              ELSE name
         IN [str |-> <<"#">> \o funcName \o <<" ", "@", " ">> \o fr.file
                     \o <<":">> \o FormatInt(fr.line),
             ok |-> TRUE]

RECURSIVE CallStackLoop_NoDepthTest(_, _, _, _)
\* the loop without its depth test: it walks until the stack runs out
CallStackLoop_NoDepthTest(skip, maxCallStackDepth, callers, callStack) ==
    IF skip + 1 > Len(callers) THEN callStack
    ELSE LET cur == getSourceString(skip, callers) IN
         IF ~cur.ok
         THEN CallStackLoop_NoDepthTest(skip + 1, maxCallStackDepth, callers, callStack)
         ELSE IF HasPrefix(cur.str, StopMarker)
              THEN Append(callStack, cur.str)
              ELSE CallStackLoop_NoDepthTest(skip + 1, maxCallStackDepth, callers,
                                             Append(callStack, cur.str))

RECURSIVE CallStackLoop_BreakOnLost(_, _, _, _)
\* the loop with `break` in place of `continue` when the resolver fails
CallStackLoop_BreakOnLost(skip, maxCallStackDepth, callers, callStack) ==
    IF ~(skip < maxCallStackDepth) THEN callStack
    ELSE LET cur == getSourceString(skip, callers) IN
         IF ~cur.ok
         THEN callStack
         ELSE IF HasPrefix(cur.str, StopMarker)
              THEN Append(callStack, cur.str)
              ELSE CallStackLoop_BreakOnLost(skip + 1, maxCallStackDepth, callers,
                                             Append(callStack, cur.str))

RECURSIVE CallStackLoop_Prepend(_, _, _, _)
\* the loop putting each new frame in front of the ones collected
CallStackLoop_Prepend(skip, maxCallStackDepth, callers, callStack) ==
    IF ~(skip < maxCallStackDepth) THEN callStack
    ELSE LET cur == getSourceString(skip, callers) IN
         IF ~cur.ok
         THEN CallStackLoop_Prepend(skip + 1, maxCallStackDepth, callers, callStack)
         ELSE IF HasPrefix(cur.str, StopMarker)
              THEN <<cur.str>> \o callStack
              ELSE CallStackLoop_Prepend(skip + 1, maxCallStackDepth, callers,
                                         <<cur.str>> \o callStack)

RECURSIVE CallStackLoop_DepthCountsFrames(_, _, _, _)
\* the loop bounding the frames collected instead of the skip reached
CallStackLoop_DepthCountsFrames(skip, maxCallStackDepth, callers, callStack) ==
    IF ~(Len(callStack) < maxCallStackDepth) \/ skip + 1 > Len(callers) THEN callStack
    ELSE LET cur == getSourceString(skip, callers) IN
         IF ~cur.ok
         THEN CallStackLoop_DepthCountsFrames(skip + 1, maxCallStackDepth, callers, callStack)
         ELSE IF HasPrefix(cur.str, StopMarker)
              THEN Append(callStack, cur.str)
              ELSE CallStackLoop_DepthCountsFrames(skip + 1, maxCallStackDepth, callers,
                                                   Append(callStack, cur.str))

RECURSIVE CallStackLoop_ExactEntry(_, _, _, _)
\* the loop stopping at the function named main.main and at no other
CallStackLoop_ExactEntry(skip, maxCallStackDepth, callers, callStack) ==
    IF ~(skip < maxCallStackDepth) THEN callStack
    ELSE LET cur == getSourceString(skip, callers) IN
         IF ~cur.ok
         THEN CallStackLoop_ExactEntry(skip + 1, maxCallStackDepth, callers, callStack)
         ELSE IF HasPrefix(cur.str, StopMarker \o <<" ">>)
              THEN Append(callStack, cur.str)
              ELSE CallStackLoop_ExactEntry(skip + 1, maxCallStackDepth, callers,
                                            Append(callStack, cur.str))

RECURSIVE CallStackLoop(_, _, _, _)
\* for skip := start; skip < maxCallStackDepth; skip++ { ... }
CallStackLoop(skip, maxCallStackDepth, callers, callStack) ==
    IF ~(skip < maxCallStackDepth) THEN callStack
    ELSE LET cur == getSourceString(skip, callers) IN
         IF ~cur.ok
         THEN CallStackLoop(skip + 1, maxCallStackDepth, callers, callStack)
         ELSE IF HasPrefix(cur.str, StopMarker)
              THEN Append(callStack, cur.str)
              ELSE CallStackLoop(skip + 1, maxCallStackDepth, callers,
                                 Append(callStack, cur.str))

(***************************************************************************)
(* The builder                                                             *)
(***************************************************************************)
NoLogger == [logger |-> "none", attrs |-> <<>>, maxCallStackDepth |-> 0]

\* slog.String / slog.Bool / slog.Any
Attr(key, kind, value) == [key |-> key, kind |-> kind, value |-> value]

appendAttr(b, attr) == [b EXCEPT !.attrs = Append(@, attr)]

\* the automatic call stack collected up to the level's default depth
\* instead of z.maxCallStackDepth
ApplyFlags_DefaultDepth(b, autoSource, autoCallStack, stk) ==
    LET callers == <<FrameGetSourceString, FrameApplyAutoFeatures, FrameConstructor>> \o stk
        src == getSourceString(3, callers)
        b1 == IF autoSource /\ src.ok
              THEN appendAttr(b, Attr("source", "String", src.str))
              ELSE b
        b2 == IF autoCallStack
              THEN appendAttr(b1, Attr("callstack", "Any",
                                       CallStackLoop(3, defaultCallStackDepths[b.logger],
                                                     callers, <<>>)))
              ELSE b1
    IN b2

\* the part of applyAutoFeatures after the switch (lines 681-702), run from
\* the call site `stk` with the flags the switch has read
ApplyFlags(b, autoSource, autoCallStack, stk) ==
    LET callers == <<FrameGetSourceString, FrameApplyAutoFeatures, FrameConstructor>> \o stk
        src == getSourceString(3, callers)
        b1 == IF autoSource /\ src.ok
              THEN appendAttr(b, Attr("source", "String", src.str))
              ELSE b
        b2 == IF autoCallStack
              THEN appendAttr(b1, Attr("callstack", "Any",
                                       CallStackLoop(3, b.maxCallStackDepth, callers, <<>>)))
              ELSE b1
    IN b2

\* applyAutoFeatures with every case of its switch reading the Error flags
applyAutoFeatures_ErrorFlags(b, level, stk) ==
    ApplyFlags(b,
               IF level \in Levels THEN globalConfig["Error"].AutoSource ELSE FALSE,
               IF level \in Levels THEN globalConfig["Error"].AutoCallStack ELSE FALSE,
               stk)

\* applyAutoFeatures(level) called by a constructor from the call site `stk`
applyAutoFeatures(b, level, stk) ==
    ApplyFlags(b,
               IF level \in Levels THEN globalConfig[level].AutoSource ELSE FALSE,
               IF level \in Levels THEN globalConfig[level].AutoCallStack ELSE FALSE,
               stk)

\* the process has not ended
NotExited == [code |-> -1, sync |-> "none"]
\* a panic nothing recovers ends the process with status 2, nothing flushed
Panicked == [code |-> 2, sync |-> "none"]

Running == status = "running"
Idle == rd.pc = "idle" /\ wr.pc = "idle"
HasLogger == z.logger \in Levels
CanAppend == HasLogger /\ Len(z.attrs) < MaxAttrs

Op(name, arg) == [op |-> name, arg |-> arg, pre |-> z.attrs]

\* the goroutines that log
Threads == {1, 2}

\* a goroutine that holds no builder: it has not called a constructor, or it
\* is the one running, whose builder and stack are z and stack
NotStarted == [z |-> NoLogger, stack |-> <<>>]

\* the scheduler takes the running goroutine off between two of its calls
\* and runs goroutine t; each goroutine keeps its own *zlogImpl and stack
Switch(t) ==
    /\ Running /\ Idle
    /\ t # tid
    /\ parked' = [parked EXCEPT ![tid] = [z |-> z, stack |-> stack], ![t] = NotStarted]
    /\ z' = parked[t].z
    /\ stack' = parked[t].stack
    /\ tid' = t
    /\ last' = [op |-> "Switch", arg |-> t, pre |-> parked[t].z.attrs]
    /\ UNCHANGED <<globalConfig, sink, stdout, status, exit, rd, wr>>

\* SetConfig that copies only the fields of config that differ from the
\* zero value and leaves the others as they are
SetConfig_Merges(config) ==
    /\ Running /\ Idle
    /\ globalConfig' =
           [l \in Levels |->
               [AutoSource |-> config[l].AutoSource \/ globalConfig[l].AutoSource,
                AutoCallStack |-> config[l].AutoCallStack \/ globalConfig[l].AutoCallStack,
                MaxCallStackDepth |-> IF config[l].MaxCallStackDepth # 0
                                      THEN config[l].MaxCallStackDepth
                                      ELSE globalConfig[l].MaxCallStackDepth]]
    /\ last' = Op("SetConfig", config)
    /\ UNCHANGED <<z, stack, sink, stdout, status, exit, rd, wr, parked, tid>>

\* SetConfig(config): one store of the whole struct when nothing else runs
SetConfig(config) ==
    /\ Running /\ Idle
    /\ globalConfig' = config
    /\ last' = Op("SetConfig", config)
    /\ UNCHANGED <<z, stack, sink, stdout, status, exit, rd, wr, parked, tid>>

\* Debug() called at the call site `stk`: logger: debugLogger
Debug(stk) ==
    /\ Running /\ Idle
    /\ z' = applyAutoFeatures([logger |-> "Debug", attrs |-> <<>>,
                               maxCallStackDepth |-> getMaxCallStackDepth("Debug")],
                              "Debug", stk)
    /\ stack' = stk
    /\ last' = [op |-> "New", arg |-> "Debug", pre |-> <<>>]
    /\ UNCHANGED <<globalConfig, sink, stdout, status, exit, rd, wr, parked, tid>>

\* Info() called at the call site `stk`: logger: infoLogger
Info(stk) ==
    /\ Running /\ Idle
    /\ z' = applyAutoFeatures([logger |-> "Info", attrs |-> <<>>,
                               maxCallStackDepth |-> getMaxCallStackDepth("Info")],
                              "Info", stk)
    /\ stack' = stk
    /\ last' = [op |-> "New", arg |-> "Info", pre |-> <<>>]
    /\ UNCHANGED <<globalConfig, sink, stdout, status, exit, rd, wr, parked, tid>>

\* Warn() called at the call site `stk`: logger: warnLogger
Warn(stk) ==
    /\ Running /\ Idle
    /\ z' = applyAutoFeatures([logger |-> "Warn", attrs |-> <<>>,
                               maxCallStackDepth |-> getMaxCallStackDepth("Warn")],
                              "Warn", stk)
    /\ stack' = stk
    /\ last' = [op |-> "New", arg |-> "Warn", pre |-> <<>>]
    /\ UNCHANGED <<globalConfig, sink, stdout, status, exit, rd, wr, parked, tid>>

\* Error() that clears the Error policy once it has applied it
Error_ConsumesPolicy(stk) ==
    /\ Running /\ Idle
    /\ z' = applyAutoFeatures([logger |-> "Error", attrs |-> <<>>,
                               maxCallStackDepth |-> getMaxCallStackDepth("Error")],
                              "Error", stk)
    /\ stack' = stk
    /\ globalConfig' = [globalConfig EXCEPT !["Error"] = ZeroLevelConfig]
    /\ last' = [op |-> "New", arg |-> "Error", pre |-> <<>>]
    /\ UNCHANGED <<sink, stdout, status, exit, rd, wr, parked, tid>>

\* Error() called at the call site `stk`: logger: errorLogger
Error(stk) ==
    /\ Running /\ Idle
    /\ z' = applyAutoFeatures([logger |-> "Error", attrs |-> <<>>,
                               maxCallStackDepth |-> getMaxCallStackDepth("Error")],
                              "Error", stk)
    /\ stack' = stk
    /\ last' = [op |-> "New", arg |-> "Error", pre |-> <<>>]
    /\ UNCHANGED <<globalConfig, sink, stdout, status, exit, rd, wr, parked, tid>>

\* WithCallStack bounded by the depth the policy gives now, not by z.maxCallStackDepth
WithCallStack_ReadsPolicy ==
    /\ Running /\ Idle /\ CanAppend
    /\ LET callers == <<FrameGetSourceString, FrameWithCallStack>> \o stack
           callStack == CallStackLoop(2, getMaxCallStackDepth(z.logger), callers, <<>>)
       IN z' = appendAttr(z, Attr("callstack", "Any", callStack))
    /\ last' = Op("WithCallStack", <<>>)
    /\ UNCHANGED <<globalConfig, stack, sink, stdout, status, exit, rd, wr, parked, tid>>

\* WithCallStack returning the builder as it is when no frame was collected
WithCallStack_SkipsEmpty ==
    /\ Running /\ Idle /\ CanAppend
    /\ LET callers == <<FrameGetSourceString, FrameWithCallStack>> \o stack
           callStack == CallStackLoop(2, z.maxCallStackDepth, callers, <<>>)
       IN z' = IF callStack = <<>> THEN z
               ELSE appendAttr(z, Attr("callstack", "Any", callStack))
    /\ last' = Op("WithCallStack", <<>>)
    /\ UNCHANGED <<globalConfig, stack, sink, stdout, status, exit, rd, wr, parked, tid>>

WithCallStack ==
    /\ Running /\ Idle /\ CanAppend
    /\ LET callers == <<FrameGetSourceString, FrameWithCallStack>> \o stack
           callStack == CallStackLoop(2, z.maxCallStackDepth, callers, <<>>)
       IN z' = appendAttr(z, Attr("callstack", "Any", callStack))
    /\ last' = Op("WithCallStack", <<>>)
    /\ UNCHANGED <<globalConfig, stack, sink, stdout, status, exit, rd, wr, parked, tid>>

\* WithSource resolving one frame too near: its own
WithSource_SkipOne ==
    /\ Running /\ Idle /\ CanAppend
    /\ LET source == getSourceString(1, <<FrameGetSourceString, FrameWithSource>> \o stack)
       IN z' = IF ~source.ok THEN z
               ELSE appendAttr(z, Attr("source", "String", source.str))
    /\ last' = Op("WithSource", <<>>)
    /\ UNCHANGED <<globalConfig, stack, sink, stdout, status, exit, rd, wr, parked, tid>>

WithSource ==
    /\ Running /\ Idle /\ CanAppend
    /\ LET source == getSourceString(2, <<FrameGetSourceString, FrameWithSource>> \o stack)
       IN z' = IF ~source.ok THEN z
               ELSE appendAttr(z, Attr("source", "String", source.str))
    /\ last' = Op("WithSource", <<>>)
    /\ UNCHANGED <<globalConfig, stack, sink, stdout, status, exit, rd, wr, parked, tid>>

\* WithSourceSkip attaching the empty result when no frame is found
WithSourceSkip_AttachesAlways(skip) ==
    /\ Running /\ Idle /\ CanAppend
    /\ LET source == getSourceString(2 + skip,
                                     <<FrameGetSourceString, FrameWithSourceSkip>> \o stack)
       IN z' = appendAttr(z, Attr("source", "String", source.str))
    /\ last' = Op("WithSourceSkip", skip)
    /\ UNCHANGED <<globalConfig, stack, sink, stdout, status, exit, rd, wr, parked, tid>>

WithSourceSkip(skip) ==
    /\ Running /\ Idle /\ CanAppend
    /\ LET source == getSourceString(2 + skip,
                                     <<FrameGetSourceString, FrameWithSourceSkip>> \o stack)
       IN z' = IF ~source.ok THEN z
               ELSE appendAttr(z, Attr("source", "String", source.str))
    /\ last' = Op("WithSourceSkip", skip)
    /\ UNCHANGED <<globalConfig, stack, sink, stdout, status, exit, rd, wr, parked, tid>>

\* Segment(mainSegment, detail...)
SegmentValue(mainSegment, detail) ==
    IF Len(detail) > 0
    THEN mainSegment \o <<Slash>> \o Join(detail, <<Slash>>)
    ELSE mainSegment

Segment(mainSegment, detail) ==
    /\ Running /\ Idle /\ CanAppend
    /\ z' = appendAttr(z, Attr("segment", "String", SegmentValue(mainSegment, detail)))
    /\ last' = Op("Segment", <<mainSegment, detail>>)
    /\ UNCHANGED <<globalConfig, stack, sink, stdout, status, exit, rd, wr, parked, tid>>

\* KeyValue on an attribute list that all builders share
KeyValue_SharedAttrs(key, value) ==
    /\ Running /\ Idle /\ CanAppend
    /\ z' = appendAttr(z, Attr(key, "String", value))
    /\ parked' = [t \in Threads |->
                    IF parked[t].z = NoLogger THEN parked[t]
                    ELSE [parked[t] EXCEPT !.z = appendAttr(@, Attr(key, "String", value))]]
    /\ last' = Op("KeyValue", <<key, value>>)
    /\ UNCHANGED <<globalConfig, stack, sink, stdout, status, exit, rd, wr, tid>>

KeyValue(key, value) ==
    /\ Running /\ Idle /\ CanAppend
    /\ z' = appendAttr(z, Attr(key, "String", value))
    /\ last' = Op("KeyValue", <<key, value>>)
    /\ UNCHANGED <<globalConfig, stack, sink, stdout, status, exit, rd, wr, parked, tid>>

\* the nil error interface value
NilError == [isNil |-> TRUE, msg |-> <<>>]
ErrorOf(msg) == [isNil |-> FALSE, msg |-> msg]

\* WithError(err): err.Error() is a method call on the interface value, which
\* panics with a nil dereference when err is nil
WithError(err) ==
    /\ Running /\ Idle /\ CanAppend
    /\ IF err.isNil
       THEN /\ status' = "panicked"
            /\ exit' = Panicked
            /\ z' = z
       ELSE /\ status' = status
            /\ exit' = exit
            /\ z' = appendAttr(z, Attr("error_msg", "String", err.msg))
    /\ last' = Op("WithError", err)
    /\ UNCHANGED <<globalConfig, stack, sink, stdout, rd, wr, parked, tid>>

\* Err(err) returns z.WithError(err)
Err(err) ==
    /\ Running /\ Idle /\ CanAppend
    /\ IF err.isNil
       THEN /\ status' = "panicked"
            /\ exit' = Panicked
            /\ z' = z
       ELSE /\ status' = status
            /\ exit' = exit
            /\ z' = appendAttr(z, Attr("error_msg", "String", err.msg))
    /\ last' = Op("Err", err)
    /\ UNCHANGED <<globalConfig, stack, sink, stdout, rd, wr, parked, tid>>

Alert ==
    /\ Running /\ Idle /\ CanAppend
    /\ z' = appendAttr(z, Attr("alert", "Bool", TRUE))
    /\ last' = Op("Alert", <<>>)
    /\ UNCHANGED <<globalConfig, stack, sink, stdout, status, exit, rd, wr, parked, tid>>

\* a context.Context as the function from its keys to the values stored
\* under them; a value may be stored as nil
NilValue == "nil"

\* ctx.Value(key)
CtxValue(ctx, key) == IF key \in DOMAIN ctx THEN ctx[key] ELSE NilValue

\* contextMap[key] = value
MapPut(m, key, value) ==
    [k \in (DOMAIN m) \cup {key} |-> IF k = key THEN value ELSE m[k]]

EmptyMap == [k \in {} |-> NilValue]

RECURSIVE ContextLoop_KeepsNil(_, _, _)
\* the loop without its `value != nil` test
ContextLoop_KeepsNil(ctx, keys, contextMap) ==
    IF Len(keys) = 0 THEN contextMap
    ELSE ContextLoop_KeepsNil(ctx, Tail(keys),
                              MapPut(contextMap, keys[1], CtxValue(ctx, keys[1])))

RECURSIVE ContextLoop(_, _, _)
\* for _, key := range keys { ... }
ContextLoop(ctx, keys, contextMap) ==
    IF Len(keys) = 0 THEN contextMap
    ELSE LET value == CtxValue(ctx, keys[1]) IN
         ContextLoop(ctx, Tail(keys),
                     IF value # NilValue THEN MapPut(contextMap, keys[1], value)
                     ELSE contextMap)

\* Context without its `len(contextMap) == 0` return
Context_AlwaysAttaches(ctx, keys) ==
    /\ Running /\ Idle /\ CanAppend
    /\ z' = appendAttr(z, Attr("app_ctx", "Any", ContextLoop(ctx, keys, EmptyMap)))
    /\ last' = Op("Context", <<ctx, keys>>)
    /\ UNCHANGED <<globalConfig, stack, sink, stdout, status, exit, rd, wr, parked, tid>>

Context(ctx, keys) ==
    /\ Running /\ Idle /\ CanAppend
    /\ LET contextMap == ContextLoop(ctx, keys, EmptyMap) IN
       z' = IF Cardinality(DOMAIN contextMap) = 0 THEN z
            ELSE appendAttr(z, Attr("app_ctx", "Any", contextMap))
    /\ last' = Op("Context", <<ctx, keys>>)
    /\ UNCHANGED <<globalConfig, stack, sink, stdout, status, exit, rd, wr, parked, tid>>

\* customLevel.String(), which the handler's ReplaceAttr writes as "level"
LevelString == [Debug |-> <<"D", "E", "B", "U", "G">>, Info |-> <<"I", "N", "F", "O">>,
                Warn |-> <<"W", "A", "R", "N">>, Error |-> <<"E", "R", "R", "O", "R">>]

\* an argument of a formatting call
IntArg(n) == [kind |-> "int", v |-> n]
StringArg(str) == [kind |-> "string", v |-> str]

\* the %T and the %v of an argument
TypeName(arg) == IF arg.kind = "int" THEN <<"i", "n", "t">>
                 ELSE <<"s", "t", "r", "i", "n", "g">>
FormatValue(arg) == IF arg.kind = "int" THEN FormatInt(arg.v) ELSE arg.v

\* fmt: one verb applied to one argument; %d of a string, %s of an int and a
\* character that is no verb give %!verb(type=value)
FormatVerb(verb, arg) ==
    IF verb = "v" \/ (verb = "d" /\ arg.kind = "int") \/ (verb = "s" /\ arg.kind = "string")
    THEN FormatValue(arg)
    ELSE <<"%", "!", verb, "(">> \o TypeName(arg) \o <<"=">> \o FormatValue(arg) \o <<")">>

RECURSIVE ExtraList(_)
ExtraList(args) ==
    IF Len(args) = 0 THEN <<>>
    ELSE TypeName(Head(args)) \o <<"=">> \o FormatValue(Head(args))
         \o (IF Len(args) > 1 THEN <<",", " ">> ELSE <<>>) \o ExtraList(Tail(args))

RECURSIVE Sprintf(_, _)
\* fmt.Sprintf(format, args...) for formats of plain text, %%, %d, %s and %v
Sprintf(format, args) ==
    IF Len(format) = 0
    THEN IF Len(args) = 0 THEN <<>>
         ELSE <<"%", "!", "(", "E", "X", "T", "R", "A", " ">> \o ExtraList(args) \o <<")">>
    ELSE IF Head(format) # "%"
    THEN <<Head(format)>> \o Sprintf(Tail(format), args)
    ELSE IF Len(format) = 1
    THEN <<"%", "!", "(", "N", "O", "V", "E", "R", "B", ")">> \o Sprintf(<<>>, args)
    ELSE LET verb == format[2]
             rest == SubSeq(format, 3, Len(format))
         IN IF verb = "%" THEN <<"%">> \o Sprintf(rest, args)
            ELSE IF Len(args) = 0
            THEN <<"%", "!", verb, "(", "M", "I", "S", "S", "I", "N", "G", ")">>
                 \o Sprintf(rest, args)
            ELSE FormatVerb(verb, Head(args)) \o Sprintf(rest, Tail(args))

\* z.logger.Info(message, z.attrs...): the record handed to the handler of z.logger
Emit(message) == Append(sink, [level |-> LevelString[z.logger], message |-> message,
                               attrs |-> z.attrs])

\* replaceAttr of the handler of customLevel, which slog calls on every
\* attribute of the record as well as on the built-in time and level
replaceAttr(customLevel, attr) ==
    IF attr.key = "level" THEN Attr("level", "String", LevelString[customLevel])
    ELSE attr

\* replaceAttr on key "time" calls attr.Value.Time(), which panics on a
\* value that is no time.Time; every attribute of a builder is such a value
HandlerPanics == \E i \in 1..Len(z.attrs) : z.attrs[i].key = "time"

\* the line with the level of the record, which z.logger.Info makes INFO
Line_RecordLevel(message) ==
    [level |-> LevelString["Info"], msg |-> message,
     attrs |-> [i \in 1..Len(z.attrs) |-> replaceAttr(z.logger, z.attrs[i])]]

\* the line the JSON handler of z.logger writes for the record
Line(message) ==
    [level |-> LevelString[z.logger], msg |-> message,
     attrs |-> [i \in 1..Len(z.attrs) |-> replaceAttr(z.logger, z.attrs[i])]]

\* Message emptying the builder once the record is handed over
Message_ResetsBuilder(message) ==
    /\ Running /\ Idle /\ HasLogger /\ Len(sink) < MaxSink
    /\ sink' = Emit(message)
    /\ stdout' = IF HandlerPanics THEN stdout ELSE Append(stdout, Line(message))
    /\ status' = IF HandlerPanics THEN "panicked" ELSE status
    /\ exit' = IF HandlerPanics THEN Panicked ELSE exit
    /\ z' = [z EXCEPT !.attrs = <<>>]
    /\ last' = Op("Message", message)
    /\ UNCHANGED <<globalConfig, stack, rd, wr, parked, tid>>

Message(message) ==
    /\ Running /\ Idle /\ HasLogger /\ Len(sink) < MaxSink
    /\ sink' = Emit(message)
    /\ stdout' = IF HandlerPanics THEN stdout ELSE Append(stdout, Line(message))
    /\ status' = IF HandlerPanics THEN "panicked" ELSE status
    /\ exit' = IF HandlerPanics THEN Panicked ELSE exit
    /\ last' = Op("Message", message)
    /\ UNCHANGED <<globalConfig, z, stack, rd, wr, parked, tid>>

Msg(message) ==
    /\ Running /\ Idle /\ HasLogger /\ Len(sink) < MaxSink
    /\ sink' = Emit(message)
    /\ stdout' = IF HandlerPanics THEN stdout ELSE Append(stdout, Line(message))
    /\ status' = IF HandlerPanics THEN "panicked" ELSE status
    /\ exit' = IF HandlerPanics THEN Panicked ELSE exit
    /\ last' = Op("Msg", message)
    /\ UNCHANGED <<globalConfig, z, stack, rd, wr, parked, tid>>

Messagef(format, args) ==
    /\ Running /\ Idle /\ HasLogger /\ Len(sink) < MaxSink
    /\ sink' = Emit(Sprintf(format, args))
    /\ stdout' = IF HandlerPanics THEN stdout
                 ELSE Append(stdout, Line(Sprintf(format, args)))
    /\ status' = IF HandlerPanics THEN "panicked" ELSE status
    /\ exit' = IF HandlerPanics THEN Panicked ELSE exit
    /\ last' = Op("Messagef", <<format, args>>)
    /\ UNCHANGED <<globalConfig, z, stack, rd, wr, parked, tid>>

\* Msgf that passes the format on as the message
Msgf_Unformatted(format, args) ==
    /\ Running /\ Idle /\ HasLogger /\ Len(sink) < MaxSink
    /\ sink' = Emit(format)
    /\ stdout' = IF HandlerPanics THEN stdout ELSE Append(stdout, Line(format))
    /\ status' = IF HandlerPanics THEN "panicked" ELSE status
    /\ exit' = IF HandlerPanics THEN Panicked ELSE exit
    /\ last' = Op("Msgf", <<format, args>>)
    /\ UNCHANGED <<globalConfig, z, stack, rd, wr, parked, tid>>

Msgf(format, args) ==
    /\ Running /\ Idle /\ HasLogger /\ Len(sink) < MaxSink
    /\ sink' = Emit(Sprintf(format, args))
    /\ stdout' = IF HandlerPanics THEN stdout
                 ELSE Append(stdout, Line(Sprintf(format, args)))
    /\ status' = IF HandlerPanics THEN "panicked" ELSE status
    /\ exit' = IF HandlerPanics THEN Panicked ELSE exit
    /\ last' = Op("Msgf", <<format, args>>)
    /\ UNCHANGED <<globalConfig, z, stack, rd, wr, parked, tid>>

\* Fatal(message): Message, then os.Stdout.Sync(), whose error is dropped,
\* then os.Exit(1); the JSON handler has no Sync method, so that type
\* assertion fails and the branch is not taken.  syncFails: Sync returns an error
Fatal(message, syncFails) ==
    /\ Running /\ Idle /\ HasLogger /\ Len(sink) < MaxSink
    /\ sink' = Emit(message)
    /\ stdout' = IF HandlerPanics THEN stdout ELSE Append(stdout, Line(message))
    /\ status' = IF HandlerPanics THEN "panicked" ELSE "exited"
    /\ exit' = IF HandlerPanics THEN Panicked
               ELSE [code |-> 1, sync |-> IF syncFails THEN "failed" ELSE "done"]
    /\ last' = Op("Fatal", message)
    /\ UNCHANGED <<globalConfig, z, stack, rd, wr, parked, tid>>

\* Fatalf(format, args...): Messagef, then as Fatal
Fatalf(format, args, syncFails) ==
    /\ Running /\ Idle /\ HasLogger /\ Len(sink) < MaxSink
    /\ sink' = Emit(Sprintf(format, args))
    /\ stdout' = IF HandlerPanics THEN stdout
                 ELSE Append(stdout, Line(Sprintf(format, args)))
    /\ status' = IF HandlerPanics THEN "panicked" ELSE "exited"
    /\ exit' = IF HandlerPanics THEN Panicked
               ELSE [code |-> 1, sync |-> IF syncFails THEN "failed" ELSE "done"]
    /\ last' = Op("Fatalf", <<format, args>>)
    /\ UNCHANGED <<globalConfig, z, stack, rd, wr, parked, tid>>

(***************************************************************************)
(* A constructor racing with SetConfig.  globalConfig is a plain package   *)
(* variable: SetConfig stores the struct word by word in no fixed order    *)
(* (a store of a word that already holds the new value changes nothing and *)
(* is left out), and a constructor reads MaxCallStackDepth in              *)
(* getMaxCallStackDepth and the two flags in applyAutoFeatures one by one. *)
(***************************************************************************)
Fields == {"AutoSource", "AutoCallStack", "MaxCallStackDepth"}

IdleReader == [pc |-> "idle", level |-> "none", positive |-> FALSE, maxCallStackDepth |-> 0,
               autoSource |-> FALSE, autoCallStack |-> FALSE, seen |-> {}]
IdleWriter == [pc |-> "idle", config |-> ZeroLogConfig, old |-> ZeroLogConfig]

Differing(config) ==
    {w \in Levels \X Fields : globalConfig[w[1]][w[2]] # config[w[1]][w[2]]}

SetConfigBegin(config) ==
    /\ Running /\ wr.pc = "idle"
    /\ Differing(config) # {}
    /\ wr' = [pc |-> "storing", config |-> config, old |-> globalConfig]
    /\ rd' = IF rd.pc = "idle" THEN rd ELSE [rd EXCEPT !.seen = @ \cup {config}]
    /\ last' = Op("SetConfigBegin", config)
    /\ UNCHANGED <<globalConfig, z, stack, sink, stdout, status, exit, parked, tid>>

SetConfigStore(w) ==
    /\ Running /\ wr.pc = "storing"
    /\ w \in Differing(wr.config)
    /\ globalConfig' = [globalConfig EXCEPT ![w[1]][w[2]] = wr.config[w[1]][w[2]]]
    /\ wr' = IF globalConfig' = wr.config THEN [wr EXCEPT !.pc = "idle"] ELSE wr
    /\ last' = Op("SetConfigStore", w)
    /\ UNCHANGED <<z, stack, sink, stdout, status, exit, rd, parked, tid>>

ConstructorBegin(level, stk) ==
    /\ Running /\ rd.pc = "idle"
    /\ rd' = [IdleReader EXCEPT !.pc = "check", !.level = level,
                                !.seen = IF wr.pc = "storing" THEN {wr.old, wr.config}
                                         ELSE {globalConfig}]
    /\ stack' = stk
    /\ z' = NoLogger
    /\ last' = [op |-> "ConstructorBegin", arg |-> level, pre |-> <<>>]
    /\ UNCHANGED <<globalConfig, sink, stdout, status, exit, wr, parked, tid>>

\* getMaxCallStackDepth: if globalConfig.L.MaxCallStackDepth > 0
ReadDepthCheck ==
    /\ Running /\ rd.pc = "check"
    /\ rd' = [rd EXCEPT !.pc = "return",
                        !.positive = globalConfig[rd.level].MaxCallStackDepth > 0]
    /\ UNCHANGED <<globalConfig, z, stack, sink, stdout, status, exit, last, wr, parked, tid>>

\* getMaxCallStackDepth: return globalConfig.L.MaxCallStackDepth / the default
ReadDepthReturn ==
    /\ Running /\ rd.pc = "return"
    /\ rd' = [rd EXCEPT !.pc = "source",
                        !.maxCallStackDepth =
                            IF rd.positive THEN globalConfig[rd.level].MaxCallStackDepth
                            ELSE defaultCallStackDepths[rd.level]]
    /\ UNCHANGED <<globalConfig, z, stack, sink, stdout, status, exit, last, wr, parked, tid>>

\* applyAutoFeatures: autoSource = globalConfig.L.AutoSource
ReadAutoSource ==
    /\ Running /\ rd.pc = "source"
    /\ rd' = [rd EXCEPT !.pc = "callstack", !.autoSource = globalConfig[rd.level].AutoSource]
    /\ UNCHANGED <<globalConfig, z, stack, sink, stdout, status, exit, last, wr, parked, tid>>

\* applyAutoFeatures: autoCallStack = globalConfig.L.AutoCallStack
ReadAutoCallStack ==
    /\ Running /\ rd.pc = "callstack"
    /\ rd' = [rd EXCEPT !.pc = "apply",
                        !.autoCallStack = globalConfig[rd.level].AutoCallStack]
    /\ UNCHANGED <<globalConfig, z, stack, sink, stdout, status, exit, last, wr, parked, tid>>

\* applyAutoFeatures from line 681 on, and the constructor's return
ConstructorEnd ==
    /\ Running /\ rd.pc = "apply"
    /\ z' = ApplyFlags([logger |-> rd.level, attrs |-> <<>>,
                        maxCallStackDepth |-> rd.maxCallStackDepth],
                       rd.autoSource, rd.autoCallStack, stack)
    /\ rd' = [rd EXCEPT !.pc = "idle"]
    /\ last' = [op |-> "ConstructorEnd", arg |-> rd.level, pre |-> <<>>]
    /\ UNCHANGED <<globalConfig, stack, sink, stdout, status, exit, wr, parked, tid>>

(***************************************************************************)
(* Inputs                                                                  *)
(***************************************************************************)
SeqsUpTo(S, n) == UNION {[1..k -> S] : k \in 0..n}

Stacks == SeqsUpTo(FrameKinds, MaxStack) \ {<<>>}

\* the inputs of a step that opens a chain: none once a chain is open
BeforeChain(S) == IF HasLogger THEN {} ELSE S

\* the inputs of an enrichment step of a short chain
Enrich(S) == IF HasLogger /\ Len(z.attrs) < MaxCalls THEN S ELSE {}

\* the stack of a chain written in a function called from main.main
PlainStack == <<FrameApp, FrameMain>>

\* a chain of ChainDepth nested calls: the log call site first, main.main last
DeepStack == [i \in 1..ChainDepth |-> IF i = ChainDepth THEN FrameMain ELSE FrameApp]

DepthInputs == (-1)..MaxDepthInput

OptionLevels == Levels \cup {OtherLevel}

Options ==
    {AutoSourceConfig(l, b) : l \in OptionLevels, b \in BOOLEAN}
    \cup {AutoCallStackConfig(l, b) : l \in OptionLevels, b \in BOOLEAN}
    \cup {MaxCallStackDepthConfig(l, d) : l \in OptionLevels, d \in {-1, 0, MaxDepthInput}}

\* Configure(AutoSourceConfig(l, s), AutoCallStackConfig(l, c), MaxCallStackDepthConfig(l, d))
LevelPolicy(l, s, c, d) ==
    Configure(<<AutoSourceConfig(l, s), AutoCallStackConfig(l, c),
                MaxCallStackDepthConfig(l, d)>>)

SegmentMain == <<"m", "a", "i", "n">>
SegmentSub == <<"s", "u", "b">>
SegmentInputs == {<<>>, SegmentSub}

TextValue == <<"v">>
Errors == {NilError, ErrorOf(<<"b", "o", "o", "m">>)}

ContextKeys == {"userID", "requestID", "missing"}
StoredValue == [userID |-> "12345", requestID |-> "req-abc-123"]
\* every store over the two keys, each key absent, stored as nil or stored with its value
ContextStores ==
    {[k \in D |-> IF k \in N THEN NilValue ELSE StoredValue[k]] :
        D \in SUBSET {"userID", "requestID"}, N \in SUBSET {"userID", "requestID"}}

Messages == {<<"m", "s", "g">>}

\* a format with its matching argument
PlainFormat == <<<<"n", "=", "%", "d">>, <<IntArg(7)>>>>

\* formatting calls: matching arguments, a wrong type, a missing and a spare one
FormatCalls ==
    {PlainFormat,
     <<<<"%", "s", "!">>, <<StringArg(<<"h", "i">>)>>>>,
     <<<<"%", "d", "%", "%">>, <<StringArg(<<"h", "i">>)>>>>,
     <<<<"%", "s">>, <<>>>>,
     <<<<"o", "k">>, <<IntArg(-1)>>>>}

Init ==
    /\ globalConfig = ZeroLogConfig
    /\ z = NoLogger
    /\ stack = <<>>
    /\ sink = <<>>
    /\ stdout = <<>>
    /\ status = "running"
    /\ exit = NotExited
    /\ last = [op |-> "init", arg |-> <<>>, pre |-> <<>>]
    /\ rd = IdleReader
    /\ wr = IdleWriter
    /\ parked = [t \in Threads |-> NotStarted]
    /\ tid = 1

\* the inputs of a terminal call of a run that emits a single record
FirstRecord(S) == IF sink = <<>> THEN S ELSE {}

Terminal ==
    \/ \E m \in FirstRecord(Messages) : Message(m)
    \/ \E m \in FirstRecord(Messages) : Msg(m)
    \/ \E f \in FirstRecord(FormatCalls) : Messagef(f[1], f[2])
    \/ \E f \in FirstRecord(FormatCalls) : Msgf(f[1], f[2])
    \/ \E m \in FirstRecord(Messages), syncFails \in BOOLEAN : Fatal(m, syncFails)
    \/ \E f \in FirstRecord(FormatCalls), syncFails \in BOOLEAN : Fatalf(f[1], f[2], syncFails)

(* one fluent chain, written in a function called from main.main, from its *)
(* constructor to its terminal calls; SetConfig may run at any point       *)
Next ==
    \/ \E c \in BOOLEAN, d \in {0, 3} : SetConfig(LevelPolicy("Error", c, c, d))
    \/ \E stk \in BeforeChain({PlainStack}) : Debug(stk)
    \/ \E stk \in BeforeChain({PlainStack}) : Info(stk)
    \/ \E stk \in BeforeChain({PlainStack}) : Warn(stk)
    \/ \E stk \in BeforeChain({PlainStack}) : Error(stk)
    \/ WithSource
    \/ \E skip \in {0, MaxStack} : WithSourceSkip(skip)
    \/ WithCallStack
    \/ Segment(SegmentMain, <<SegmentSub>>)
    \/ \E key \in {"k", "time", "level"} : KeyValue(key, TextValue)
    \/ \E err \in Errors : WithError(err)
    \/ \E err \in Errors : Err(err)
    \/ Alert
    \/ \E ctx \in {[k \in {"userID"} |-> "12345"]}, keys \in {<<"userID">>, <<"missing">>} :
          Context(ctx, keys)
    \/ Terminal

Spec == Init /\ [][Next]_vars

(* Segment over all its inputs, on an Info builder *)
NextSegment ==
    \/ \E stk \in BeforeChain({PlainStack}) : Info(stk)
    \/ \E m \in {SegmentMain, <<>>}, d \in SeqsUpTo(SegmentInputs, MaxDetail) : Segment(m, d)

SpecSegment == Init /\ [][NextSegment]_vars

(* Context over all its inputs, on an Info builder *)
NextContext ==
    \/ \E stk \in BeforeChain({PlainStack}) : Info(stk)
    \/ \E ctx \in ContextStores, keys \in SeqsUpTo(ContextKeys, MaxKeys) : Context(ctx, keys)

SpecContext == Init /\ [][NextContext]_vars

(* the policy: every Configure call of at most MaxOpts options, and the    *)
(* loggers constructed under it                                            *)
NextPolicy ==
    \/ \E opts \in SeqsUpTo(Options, MaxOpts) : SetConfig(Configure(opts))
    \/ Debug(PlainStack)
    \/ Info(PlainStack)
    \/ Warn(PlainStack)
    \/ Error(PlainStack)

SpecPolicy == Init /\ [][NextPolicy]_vars

(* frame resolution and call-stack collection: a policy set in main, then  *)
(* one chain started on any stack                                          *)
NextStack ==
    \/ \E l \in BeforeChain(Levels), c \in BOOLEAN, d \in DepthInputs :
          SetConfig(LevelPolicy(l, FALSE, c, d))
    \/ \E stk \in BeforeChain(Stacks) : Debug(stk)
    \/ \E stk \in BeforeChain(Stacks) : Info(stk)
    \/ \E stk \in BeforeChain(Stacks) : Warn(stk)
    \/ \E stk \in BeforeChain(Stacks) : Error(stk)
    \/ WithCallStack

SpecStack == Init /\ [][NextStack]_vars

(* the automatic features: a policy for one level set in main, then one     *)
(* chain of a constructor and Message calls, shallow or deep in the stack  *)
NextAuto ==
    \/ \E l \in BeforeChain(Levels), s \in BOOLEAN, c \in BOOLEAN, d \in {0, 3} :
          SetConfig(LevelPolicy(l, s, c, d))
    \/ \E stk \in BeforeChain({PlainStack, DeepStack}) : Debug(stk)
    \/ \E stk \in BeforeChain({PlainStack, DeepStack}) : Info(stk)
    \/ \E stk \in BeforeChain({PlainStack, DeepStack}) : Warn(stk)
    \/ \E stk \in BeforeChain({PlainStack, DeepStack}) : Error(stk)
    \/ \E m \in Messages : Message(m)

SpecAuto == Init /\ [][NextAuto]_vars

(* a policy change at any point of one short chain: every constructor,     *)
(* every enrichment call, every terminal call                              *)
NextChain ==
    \/ \E c \in BOOLEAN, d \in {0, 3} : SetConfig(LevelPolicy("Error", c, c, d))
    \/ \E stk \in BeforeChain({PlainStack}) : Debug(stk)
    \/ \E stk \in BeforeChain({PlainStack}) : Info(stk)
    \/ \E stk \in BeforeChain({PlainStack}) : Warn(stk)
    \/ \E stk \in BeforeChain({PlainStack}) : Error(stk)
    \/ \E go \in Enrich({TRUE}) : WithSource
    \/ \E skip \in Enrich({0}) : WithSourceSkip(skip)
    \/ \E go \in Enrich({TRUE}) : WithCallStack
    \/ \E detail \in Enrich({<<SegmentSub>>}) : Segment(SegmentMain, detail)
    \/ \E key \in Enrich({"k"}) : KeyValue(key, TextValue)
    \/ \E err \in Enrich(Errors) : WithError(err)
    \/ \E err \in Enrich(Errors) : Err(err)
    \/ \E go \in Enrich({TRUE}) : Alert
    \/ \E keys \in Enrich({<<"userID">>}) : Context([k \in {"userID"} |-> "12345"], keys)
    \/ \E m \in Messages : Message(m)
    \/ \E m \in Messages : Msg(m)
    \/ Messagef(PlainFormat[1], PlainFormat[2])
    \/ Msgf(PlainFormat[1], PlainFormat[2])
    \/ \E m \in Messages : Fatal(m, FALSE)
    \/ Fatalf(PlainFormat[1], PlainFormat[2], FALSE)

SpecChain == Init /\ [][NextChain]_vars

(* the terminal calls over all their inputs, on chains of key-value and    *)
(* alert attributes, some of them keyed like the built-in time and level   *)
NextTerminal ==
    \/ \E stk \in BeforeChain({PlainStack}) : Debug(stk)
    \/ \E stk \in BeforeChain({PlainStack}) : Info(stk)
    \/ \E stk \in BeforeChain({PlainStack}) : Warn(stk)
    \/ \E stk \in BeforeChain({PlainStack}) : Error(stk)
    \/ \E key \in {"k", "time", "level"} : KeyValue(key, TextValue)
    \/ Alert
    \/ Terminal

SpecTerminal == Init /\ [][NextTerminal]_vars

RacePolicies == {ZeroLogConfig} \cup {LevelPolicy(l, TRUE, TRUE, 3) : l \in {"Error", "Info"}}

(* one constructor call in one goroutine, SetConfig calls in another *)
NextRace ==
    \/ \E config \in RacePolicies : SetConfigBegin(config)
    \/ \E w \in Levels \X Fields : SetConfigStore(w)
    \/ \E l \in Levels : ConstructorBegin(l, PlainStack)
    \/ ReadDepthCheck
    \/ ReadDepthReturn
    \/ ReadAutoSource
    \/ ReadAutoCallStack
    \/ ConstructorEnd

SpecRace == Init /\ [][NextRace]_vars

\* the stacks of the main goroutine: main.main at the bottom, under
\* functions, closures and frames without a symbol
MainStacks ==
    {s \o <<FrameMain>> : s \in SeqsUpTo({FrameApp, FrameClosure, FrameNoSym}, MaxStack - 1)}

(* the source attribute: a policy for Info or Error set in main, then one  *)
(* chain on a stack of the main goroutine with the manual source and      *)
(* callstack calls, at any skip up to beyond the deepest stack, and       *)
(* Message calls                                                          *)
NextSource ==
    \/ \E l \in BeforeChain({"Info", "Error"}), s \in BOOLEAN, c \in BOOLEAN :
          SetConfig(LevelPolicy(l, s, c, 0))
    \/ \E stk \in BeforeChain(MainStacks) : Info(stk)
    \/ \E stk \in BeforeChain(MainStacks) : Error(stk)
    \/ WithSource
    \/ \E skip \in 0..MaxStack : WithSourceSkip(skip)
    \/ WithCallStack
    \/ \E m \in FirstRecord(Messages) : Message(m)

SpecSource == Init /\ [][NextSource]_vars

(* one builder used again after its terminal call: an Info or Warn logger, *)
(* KeyValue and Alert calls, and the four terminal calls that return, in   *)
(* any order                                                               *)
NextReuse ==
    \/ \E stk \in BeforeChain({PlainStack}) : Info(stk)
    \/ \E stk \in BeforeChain({PlainStack}) : Warn(stk)
    \/ KeyValue("k", TextValue)
    \/ Alert
    \/ \E m \in Messages : Message(m)
    \/ \E m \in Messages : Msg(m)
    \/ Messagef(PlainFormat[1], PlainFormat[2])
    \/ Msgf(PlainFormat[1], PlainFormat[2])

SpecReuse == Init /\ [][NextReuse]_vars

\* stacks of functions of package main and of other packages, all resolvable
StopStacks ==
    SeqsUpTo({FrameApp, FrameClosure, FrameMainLoop, FrameMain}, MaxStack) \ {<<>>}

(* the early stop of the walk: a depth for Info set in main, or the        *)
(* default, then one chain of a constructor and WithCallStack calls        *)
NextStop ==
    \/ \E l \in BeforeChain({"Info"}), c \in BOOLEAN, d \in {0, MaxDepthInput} :
          SetConfig(LevelPolicy(l, FALSE, c, d))
    \/ \E stk \in BeforeChain(StopStacks) : Debug(stk)
    \/ \E stk \in BeforeChain(StopStacks) : Info(stk)
    \/ WithCallStack

SpecStop == Init /\ [][NextStop]_vars

\* what goroutine t logs: its own value and its own message
ThreadValue(t) == <<"v">> \o FormatInt(t)
ThreadMessage(t) == <<"m">> \o FormatInt(t)

(* two goroutines, each building and emitting its own chain, interleaved *)
(* at every call by the scheduler; the policy stays as loaded           *)
NextThreads ==
    \/ \E t \in Threads : Switch(t)
    \/ \E stk \in BeforeChain({PlainStack}) : Info(stk)
    \/ \E stk \in BeforeChain({PlainStack}) : Error(stk)
    \/ \E value \in {ThreadValue(tid)} : KeyValue("k", value)
    \/ \E m \in {ThreadMessage(tid)} : Message(m)

SpecThreads == Init /\ [][NextThreads]_vars

(***************************************************************************)
(* Properties                                                              *)
(***************************************************************************)
LastAttr == z.attrs[Len(z.attrs)]
Appended == Len(z.attrs) = Len(last.pre) + 1
CallStackAttrs == {i \in 1..Len(z.attrs) : z.attrs[i].key = "callstack"}
Min(a, b) == IF a < b THEN a ELSE b

\* the text each kind of frame is expected to resolve to
FrameText(fr) ==
    IF fr = FrameApp
    THEN <<"#", "p", ".", "f", " ", "@", " ", "/", "f", ".", "g", "o", ":", "4", "2">>
    ELSE IF fr = FrameMain
    THEN <<"#", "m", "a", "i", "n", ".", "m", "a", "i", "n", " ", "@", " ",
           "/", "m", ".", "g", "o", ":", "7">>
    ELSE IF fr = FrameClosure
    THEN <<"#", "m", "a", "i", "n", ".", "m", "a", "i", "n", ".", "f", "u", "n", "c", "1",
           " ", "@", " ", "/", "m", ".", "g", "o", ":", "9">>
    ELSE IF fr = FrameMainLoop
    THEN <<"#", "m", "a", "i", "n", ".", "m", "a", "i", "n", "L", "o", "o", "p",
           " ", "@", " ", "/", "m", ".", "g", "o", ":", "2", "0">>
    ELSE <<"#", "?", " ", "@", " ", "/", "c", ".", "s", ":", "3">>

\* a frame that resolves to a string beginning with "#main.main"
IsEntryFrame(fr) == fr.ok /\ fr \in {FrameMain, FrameClosure}

\* the policy's effective depth for a level, from the documented table
DocumentedDepth(policy, level) ==
    IF policy[level].MaxCallStackDepth > 0 THEN policy[level].MaxCallStackDepth
    ELSE IF level = "Debug" THEN 20
    ELSE IF level = "Error" THEN 10
    ELSE 5

Constructed == rd.pc = "idle" /\ rd.level \in Levels

\* C1: a logger constructed while SetConfig runs takes its max depth, its
\* auto-source flag and its auto-callstack flag from one and the same policy,
\* the one in force before the call or one passed to SetConfig meanwhile.
C1_OnePolicyPerConstruction ==
    Constructed =>
        \E p \in rd.seen :
            /\ z.maxCallStackDepth = DocumentedDepth(p, rd.level)
            /\ rd.autoSource = p[rd.level].AutoSource
            /\ rd.autoCallStack = p[rd.level].AutoCallStack

\* C2: every callstack attribute of a builder, attached by WithCallStack or
\* by auto-callstack, holds at most maxCallStackDepth frames.
C2_CallStackWithinMaxDepth ==
    \A i \in CallStackAttrs : Len(z.attrs[i].value) <= z.maxCallStackDepth

\* a builder with an automatic and a manual callstack, both cut by the depth
\* bound before the stack was exhausted
C2_Witness ==
    /\ last.op = "WithCallStack"
    /\ Len(z.attrs) = 2
    /\ CallStackAttrs = {1, 2}
    /\ Len(z.attrs[1].value) >= 1
    /\ Len(z.attrs[2].value) > Len(z.attrs[1].value)
    /\ Len(stack) > Len(z.attrs[2].value)
    /\ \A i \in 1..Len(stack) : stack[i].ok /\ ~IsEntryFrame(stack[i])

\* the first entry-point frame among the first maxCallStackDepth frames
\* counted from the call site, 0 if there is none
FirstEntryWithinDepth ==
    LET within == {i \in 1..Min(z.maxCallStackDepth, Len(stack)) : IsEntryFrame(stack[i])}
    IN IF within = {} THEN 0
       ELSE CHOOSE i \in within : \A j \in within : i <= j

\* C3 as stated: when the entry-point frame lies within maxCallStackDepth
\* frames of the call site (every frame up to it resolvable), every
\* collected callstack ends with that frame.
C3_EndsAtEntryPoint ==
    (/\ HasLogger
     /\ FirstEntryWithinDepth # 0
     /\ \A j \in 1..FirstEntryWithinDepth : stack[j].ok) =>
        \A i \in CallStackAttrs :
            /\ z.attrs[i].value # <<>>
            /\ z.attrs[i].value[Len(z.attrs[i].value)] = FrameText(stack[FirstEntryWithinDepth])

\* C4 as stated: on a stack with at least maxCallStackDepth resolvable
\* frames from the call site outward, none of them the entry point, the
\* collected callstack has exactly maxCallStackDepth frames.
C4_ExactlyMaxDepthFrames ==
    (/\ HasLogger
     /\ Len(stack) >= z.maxCallStackDepth
     /\ \A i \in 1..z.maxCallStackDepth : stack[i].ok /\ ~IsEntryFrame(stack[i])) =>
        \A i \in CallStackAttrs : Len(z.attrs[i].value) = z.maxCallStackDepth

\* the stack positions a walk starting at skip `start` looks at: those below
\* the depth bound, up to and including the first entry-point frame
Examined(start) ==
    {i \in 1..Min(z.maxCallStackDepth - start, Len(stack)) :
        \A j \in 1..(i - 1) : ~IsEntryFrame(stack[j])}

Rank(start, i) == Cardinality({j \in Examined(start) : j <= i /\ stack[j].ok})

\* `value` is the text of the resolvable frames among the examined ones, in order
SkipsOnlyLostFrames(value, start) ==
    /\ Len(value) = Cardinality({i \in Examined(start) : stack[i].ok})
    /\ \A i \in Examined(start) : stack[i].ok => value[Rank(start, i)] = FrameText(stack[i])

\* C5: a skip for which the resolver reports found=false adds no element and
\* does not end the walk: every later resolvable frame inside the depth
\* bound is collected, by WithCallStack and by auto-callstack alike.
C5_LostFrameDoesNotEndWalk ==
    /\ (last.op = "WithCallStack" => SkipsOnlyLostFrames(LastAttr.value, 2))
    /\ (last.op = "New" /\ CallStackAttrs # {} => SkipsOnlyLostFrames(LastAttr.value, 3))

\* WithCallStack collected a frame that lies beyond a lost one
C5_Witness ==
    /\ last.op = "WithCallStack"
    /\ \E i, j \in Examined(2) : i < j /\ ~stack[i].ok /\ stack[j].ok
    /\ Len(LastAttr.value) >= 1

\* C6: the max depth of a logger constructed at level L is the depth
\* configured for L when that is positive, else Debug=20, Info=5, Warn=5,
\* Error=10.
C6_EffectiveMaxDepth ==
    last.op = "New" => z.maxCallStackDepth = DocumentedDepth(globalConfig, z.logger)

\* a logger constructed at a level whose configured depth is positive
C6_Witness ==
    /\ last.op = "New"
    /\ globalConfig[z.logger].MaxCallStackDepth > 0
    /\ z.maxCallStackDepth # defaultCallStackDepths[z.logger]

RECURSIVE NonEmpty(_)
NonEmpty(segs) ==
    IF segs = <<>> THEN <<>>
    ELSE IF Head(segs) = <<>> THEN NonEmpty(Tail(segs))
    ELSE <<Head(segs)>> \o NonEmpty(Tail(segs))

\* C7 as stated: Segment attaches the main segment followed by the non-empty
\* detail segments, joined with "/".
C7_SegmentFiltersEmptyDetails ==
    last.op = "Segment" =>
        /\ Appended
        /\ LastAttr.key = "segment"
        /\ LastAttr.value = Join(<<last.arg[1]>> \o NonEmpty(last.arg[2]), <<"/">>)

\* C8 as stated: WithError(nil) and Err(nil) do not fail and add no attribute.
C8_NilErrorIsIgnored ==
    (last.op \in {"WithError", "Err"} /\ last.arg.isNil) =>
        /\ status = "running"
        /\ z.attrs = last.pre

\* the keys of the list whose value is present in the store
PresentKeys(ctx, keys) ==
    {k \in {keys[i] : i \in 1..Len(keys)} : k \in DOMAIN ctx /\ ctx[k] # NilValue}

\* C9: the map attached by Context has exactly the listed keys that are
\* present in the store, each bound to the stored value.
C9_ContextMapIsPresentKeys ==
    (last.op = "Context" /\ PresentKeys(last.arg[1], last.arg[2]) # {}) =>
        /\ Appended
        /\ SubSeq(z.attrs, 1, Len(last.pre)) = last.pre
        /\ LastAttr.key = "app_ctx"
        /\ DOMAIN LastAttr.value = PresentKeys(last.arg[1], last.arg[2])
        /\ \A k \in DOMAIN LastAttr.value : LastAttr.value[k] = last.arg[1][k]

\* Context was given a present key, an absent key and a store with a nil value
C9_Witness ==
    /\ last.op = "Context"
    /\ last.arg[2] = <<"userID", "missing">>
    /\ last.arg[1] = [userID |-> "12345", requestID |-> NilValue]
    /\ LastAttr.value = [userID |-> "12345"]

\* C10: when no key resolves to a non-nil value, Context leaves the
\* attribute sequence as it was.
C10_NoAttributeWithoutKeys ==
    (last.op = "Context" /\ PresentKeys(last.arg[1], last.arg[2]) = {}) =>
        z.attrs = last.pre

\* Context was given keys, one of them stored as nil, and attached nothing
C10_Witness ==
    /\ last.op = "Context"
    /\ last.arg[2] = <<"userID", "missing">>
    /\ last.arg[1] = [userID |-> NilValue]
    /\ z.attrs = last.pre

HasKey(attrs, key) == \E i \in 1..Len(attrs) : attrs[i].key = key

\* C11: with Error configured auto-source, auto-callstack and max depth 3, a
\* record emitted by an Error logger constructed ChainDepth calls below main
\* has a source attribute and a callstack attribute, and no callstack of
\* more than 3 frames.
C11_ErrorAutoFeaturesAtDepth3 ==
    (/\ z.logger = "Error"
     /\ globalConfig["Error"] = [AutoSource |-> TRUE, AutoCallStack |-> TRUE,
                                 MaxCallStackDepth |-> 3]
     /\ stack = DeepStack) =>
        \A i \in 1..Len(stdout) :
            /\ HasKey(stdout[i].attrs, "source")
            /\ HasKey(stdout[i].attrs, "callstack")
            /\ \A j \in 1..Len(stdout[i].attrs) :
                   stdout[i].attrs[j].key = "callstack" =>
                       Len(stdout[i].attrs[j].value) <= 3

\* such a record has been written
C11_Witness ==
    /\ z.logger = "Error"
    /\ globalConfig["Error"] = [AutoSource |-> TRUE, AutoCallStack |-> TRUE,
                                MaxCallStackDepth |-> 3]
    /\ stack = DeepStack
    /\ Len(stack) >= 10
    /\ Len(stdout) = 1
    /\ stdout[1].level = <<"E", "R", "R", "O", "R">>
    /\ HasKey(stdout[1].attrs, "source")
    /\ HasKey(stdout[1].attrs, "callstack")

\* C12: a record emitted by a logger of level L that made no WithSource call
\* has a source attribute exactly when the policy set before its
\* construction has AutoSource true for L: not under the initial policy,
\* and not when the flag was set for another level only.
C12_AutoSourceIffFlag ==
    \A i \in 1..Len(stdout) :
        /\ HasKey(stdout[i].attrs, "source") <=> globalConfig[z.logger].AutoSource
        /\ \A l \in Levels, s \in BOOLEAN, c \in BOOLEAN, d \in {0, 3} :
               globalConfig = LevelPolicy(l, s, c, d) =>
                   (HasKey(stdout[i].attrs, "source") <=> (s /\ z.logger = l))
        /\ globalConfig = ZeroLogConfig => ~HasKey(stdout[i].attrs, "source")

\* a record with a source attribute, written by a Warn logger while Error
\* has no automatic source
C12_Witness ==
    /\ Len(stdout) = 1
    /\ z.logger = "Warn"
    /\ HasKey(stdout[1].attrs, "source")
    /\ ~globalConfig["Error"].AutoSource

\* C13: a record emitted by a logger of level L that made no WithCallStack
\* call has a callstack attribute exactly when the policy set before its
\* construction has AutoCallStack true for L: not under the initial policy,
\* and not when the flag was set for another level only.
C13_AutoCallStackIffFlag ==
    \A i \in 1..Len(stdout) :
        /\ HasKey(stdout[i].attrs, "callstack") <=> globalConfig[z.logger].AutoCallStack
        /\ \A l \in Levels, s \in BOOLEAN, c \in BOOLEAN, d \in {0, 3} :
               globalConfig = LevelPolicy(l, s, c, d) =>
                   (HasKey(stdout[i].attrs, "callstack") <=> (c /\ z.logger = l))
        /\ globalConfig = ZeroLogConfig => ~HasKey(stdout[i].attrs, "callstack")

\* a record with a callstack attribute and no source attribute, written by a
\* Debug logger
C13_Witness ==
    /\ Len(stdout) = 1
    /\ z.logger = "Debug"
    /\ HasKey(stdout[1].attrs, "callstack")
    /\ ~HasKey(stdout[1].attrs, "source")
    /\ ~globalConfig["Info"].AutoCallStack

\* the level/field pairs the options of a Configure call name
Named(opts) == {<<opts[i].level, opts[i].kind>> : i \in 1..Len(opts)}

\* C14: after SetConfig(Configure(B)) the policy is Configure(B), whatever
\* policy was in force before: every field of every level that no option of
\* B names holds its zero value (flag false, depth 0 = the level's default).
C14_SetConfigReplacesWholePolicy ==
    last.op = "SetConfig" =>
        /\ globalConfig = last.arg
        /\ \A opts \in SeqsUpTo(Options, MaxOpts) :
               last.arg = Configure(opts) =>
                   \A l \in Levels, f \in {"AutoSource", "AutoCallStack", "MaxCallStackDepth"} :
                       <<l, f>> \notin Named(opts) =>
                           /\ globalConfig[l][f] = ZeroLevelConfig[f]
                           /\ (f = "MaxCallStackDepth" =>
                                  getMaxCallStackDepth(l) = DocumentedDepth(ZeroLogConfig, l))

\* an Error logger was constructed under a policy that set the Error depth,
\* and a later SetConfig names another level only
C14_Witness ==
    /\ last.op = "SetConfig"
    /\ z.logger = "Error"
    /\ z.maxCallStackDepth = MaxDepthInput
    /\ globalConfig["Error"] = ZeroLevelConfig
    /\ globalConfig["Info"].AutoSource

\* C15: a step changes the policy only if it is a SetConfig call, and then
\* to the policy passed; a constructor leaves the policy as it is and builds
\* its logger from it, so loggers made between two SetConfig calls see one
\* and the same policy.
C15_PolicyChangesOnlyBySetConfig ==
    [][/\ (globalConfig' # globalConfig =>
              last'.op = "SetConfig" /\ globalConfig' = last'.arg)
       /\ (last'.op # "SetConfig" => globalConfig' = globalConfig)
       /\ (last'.op = "New" =>
              /\ z'.maxCallStackDepth = DocumentedDepth(globalConfig, z'.logger)
              /\ HasKey(z'.attrs, "source") <=> globalConfig[z'.logger].AutoSource
              /\ HasKey(z'.attrs, "callstack") <=> globalConfig[z'.logger].AutoCallStack)]_vars

\* the Error policy is still in force after an Error chain was constructed
\* and emitted under it
C15_Witness ==
    /\ last.op \in {"Message", "Msg", "Messagef", "Msgf"}
    /\ z.logger = "Error"
    /\ Len(z.attrs) = 2
    /\ z.attrs[1].key = "source"
    /\ z.attrs[2].key = "callstack"
    /\ Len(stdout) = 1
    /\ globalConfig["Error"].AutoSource
    /\ globalConfig["Error"].AutoCallStack

\* C16: a SetConfig call leaves an existing builder as it is, its attributes
\* and its max depth; no step but a constructor changes a builder's max
\* depth, and WithCallStack collects up to that depth whatever the policy
\* has become.
C16_PolicyAppliedAtCreationOnly ==
    /\ [][/\ (last'.op = "SetConfig" => z' = z)
           /\ (last'.op # "New" => z'.maxCallStackDepth = z.maxCallStackDepth)]_vars
    /\ [](last.op = "WithCallStack" => SkipsOnlyLostFrames(LastAttr.value, 2))

\* an Error builder made under the default depth collects both frames of
\* its stack after the policy was changed to auto features and depth 3
C16_Witness ==
    /\ last.op = "WithCallStack"
    /\ z.logger = "Error"
    /\ z.maxCallStackDepth = defaultCallStackDepths["Error"]
    /\ globalConfig["Error"] = [AutoSource |-> TRUE, AutoCallStack |-> TRUE,
                                MaxCallStackDepth |-> 3]
    /\ Len(z.attrs) = 1
    /\ Len(LastAttr.value) = Len(stack)

\* what fmt.Sprintf is documented to return for each formatting call used
ExpectedText(call) ==
    IF call = <<<<"n", "=", "%", "d">>, <<IntArg(7)>>>> THEN <<"n", "=", "7">>
    ELSE IF call = <<<<"%", "s", "!">>, <<StringArg(<<"h", "i">>)>>>> THEN <<"h", "i", "!">>
    ELSE IF call = <<<<"%", "d", "%", "%">>, <<StringArg(<<"h", "i">>)>>>>
    THEN <<"%", "!", "d", "(", "s", "t", "r", "i", "n", "g", "=", "h", "i", ")", "%">>
    ELSE IF call = <<<<"%", "s">>, <<>>>>
    THEN <<"%", "!", "s", "(", "M", "I", "S", "S", "I", "N", "G", ")">>
    ELSE <<"o", "k", "%", "!", "(", "E", "X", "T", "R", "A", " ", "i", "n", "t", "=",
           "-", "1", ")">>

\* the message a terminal call renders from its arguments
Rendered(op, arg) ==
    IF op \in {"Message", "Msg", "Fatal"} THEN arg ELSE ExpectedText(arg)

\* C17: a Message, Msg, Messagef or Msgf call hands one more record to the
\* handler, after those handed before: it carries the builder's attribute
\* sequence as it is and the message, formatted by the f-variants.
C17_OneRecordPerTerminalCall ==
    [][last'.op \in {"Message", "Msg", "Messagef", "Msgf"} =>
          /\ Len(sink') = Len(sink) + 1
          /\ SubSeq(sink', 1, Len(sink)) = sink
          /\ sink'[Len(sink')].attrs = z.attrs
          /\ sink'[Len(sink')].message = Rendered(last'.op, last'.arg)]_vars

\* Msgf handed over a formatted message with two attributes in call order
C17_Witness ==
    /\ last.op = "Msgf"
    /\ Len(sink) = 1
    /\ sink[1].message = <<"n", "=", "7">>
    /\ Len(sink[1].attrs) = 2
    /\ sink[1].attrs[1].key = "alert"
    /\ sink[1].attrs[2].key = "k"

\* C18 as stated: once Fatal or Fatalf was called the process has exited
\* with status 1, the record is written and the flush was attempted,
\* whether or not the flush failed.
C18_FatalExitsAfterEmitAndFlush ==
    last.op \in {"Fatal", "Fatalf"} =>
        /\ status = "exited"
        /\ exit.code = 1
        /\ exit.sync \in {"done", "failed"}
        /\ Len(stdout) >= 1
        /\ stdout[Len(stdout)].msg = Rendered(last.op, last.arg)
        /\ sink[Len(sink)].attrs = z.attrs

\* the level name each constructor stands for
ExpectedLevel(logger) ==
    IF logger = "Debug" THEN <<"D", "E", "B", "U", "G">>
    ELSE IF logger = "Info" THEN <<"I", "N", "F", "O">>
    ELSE IF logger = "Warn" THEN <<"W", "A", "R", "N">>
    ELSE <<"E", "R", "R", "O", "R">>

C20_NegativeDepthCollectsNothing ==
    (HasLogger /\ globalConfig[z.logger].MaxCallStackDepth < 0) =>
        /\ status = "running"
        /\ \A i \in CallStackAttrs : z.attrs[i].value = <<>>

\* C20 as amended: a negative configured max depth is treated like a depth
\* of zero, that is as not configured: the logger gets the default depth of
\* its level, its call stacks are collected up to that depth, and no call
\* fails.
C20_NegativeDepthUsesDefault ==
    (HasLogger /\ globalConfig[z.logger].MaxCallStackDepth < 0) =>
        /\ status = "running"
        /\ z.maxCallStackDepth = DocumentedDepth(ZeroLogConfig, z.logger)
        /\ \A i \in CallStackAttrs :
               Len(z.attrs[i].value) <= DocumentedDepth(ZeroLogConfig, z.logger)
        /\ (last.op = "WithCallStack" => SkipsOnlyLostFrames(LastAttr.value, 2))

\* WithCallStack collected frames on a logger whose level has depth -1
C20_Witness ==
    /\ HasLogger
    /\ globalConfig[z.logger].MaxCallStackDepth = -1
    /\ last.op = "WithCallStack"
    /\ Len(LastAttr.value) = Len(stack)
    /\ Len(stack) >= 2

\* the builder goroutine t holds
BuilderOf(t) == IF t = tid THEN z ELSE parked[t].z

IsPrefixOf(a, b) == Len(a) <= Len(b) /\ \A i \in 1..Len(a) : a[i] = b[i]

\* C21: builders are independent under concurrency. When two goroutines each
\* construct, enrich and emit their own builder in any interleaving, every
\* record handed to the sink carries the level, the message and the
\* attributes of the builder of the goroutine that emitted it and nothing of
\* the other builder: a call of one goroutine leaves the other builder as it
\* was, a builder holds only the values its goroutine attached, and a record
\* is the emitting builder's level and whole attribute list at the call.
C21_BuildersIndependent ==
    /\ [](\A t \in Threads : \A j \in 1..Len(BuilderOf(t).attrs) :
              BuilderOf(t).attrs[j] = Attr("k", "String", ThreadValue(t)))
    /\ [](\A i \in 1..Len(sink) : \E t \in Threads :
              /\ sink[i].message = ThreadMessage(t)
              /\ sink[i].level = ExpectedLevel(BuilderOf(t).logger)
              /\ IsPrefixOf(sink[i].attrs, BuilderOf(t).attrs))
    /\ [][/\ \A t \in Threads :
               ((t # tid \/ last'.op = "Switch") => (BuilderOf(t)' = BuilderOf(t)))
           /\ (last'.op = "Message") =>
                  (/\ tid' = tid /\ z' = z
                   /\ sink' = Append(sink, [level |-> ExpectedLevel(z.logger),
                                            message |-> ThreadMessage(tid),
                                            attrs |-> z.attrs]))]_vars

\* both goroutines emitted, the second one while the first one's builder,
\* of the other level and with other attributes, was parked
C21_Witness ==
    /\ Len(sink) = 2
    /\ sink[1].message = ThreadMessage(1) /\ sink[2].message = ThreadMessage(2)
    /\ sink[1].level # sink[2].level
    /\ Len(sink[1].attrs) = 2 /\ Len(sink[2].attrs) = 1
    /\ tid = 2 /\ last.op = "Message"
    /\ Len(parked[1].z.attrs) = 2

\* the calls that enrich a builder, and the key each one attaches
EnrichmentOps ==
    {"Segment", "KeyValue", "WithError", "Err", "Alert",
     "WithSource", "WithSourceSkip", "WithCallStack", "Context"}

KeyOfOp(op, arg) ==
    IF op = "Segment" THEN "segment"
    ELSE IF op = "KeyValue" THEN arg[1]
    ELSE IF op \in {"WithError", "Err"} THEN "error_msg"
    ELSE IF op = "Alert" THEN "alert"
    ELSE IF op \in {"WithSource", "WithSourceSkip"} THEN "source"
    ELSE IF op = "WithCallStack" THEN "callstack"
    ELSE "app_ctx"

\* whether the call contributes an attribute: always, but for a source call
\* whose frame is not found, a Context call that finds no key, and an error
\* call given nil
Contributes(op, arg) ==
    IF op = "WithSource" THEN stack[1].ok
    ELSE IF op = "WithSourceSkip"
         THEN arg >= 0 /\ arg + 1 <= Len(stack) /\ stack[arg + 1].ok
    ELSE IF op = "Context" THEN PresentKeys(arg[1], arg[2]) # {}
    ELSE IF op \in {"WithError", "Err"} THEN ~arg.isNil
    ELSE TRUE

\* C22: after any sequence of enrichment calls the attribute sequence is the
\* concatenation, in call order, of what each call contributes: every
\* enrichment call returns its builder, with the attributes it had before
\* followed by the one attribute the call contributes, duplicates kept, or
\* with the same attributes when the call contributes none.
C22_AttrsAreConcatenation ==
    last.op \in EnrichmentOps =>
        /\ status = "running"
        /\ IF Contributes(last.op, last.arg)
           THEN /\ Appended
                /\ SubSeq(z.attrs, 1, Len(last.pre)) = last.pre
                /\ LastAttr.key = KeyOfOp(last.op, last.arg)
           ELSE z.attrs = last.pre

\* the source attribute that names frame fr
SourceOf(fr) == Attr("source", "String", FrameText(fr))

\* C23: the source attribute names the application's log call site in both
\* modes. For a chain written in function F (the innermost application
\* frame), WithSource attaches F's frame, a constructor of a level with
\* automatic source attaches F's frame as well, and WithSourceSkip(0)
\* attaches what WithSource attaches.
C23_SourceNamesLogCallSite ==
    (HasLogger /\ stack[1].ok) =>
        /\ last.op = "WithSource" =>
               (Appended /\ LastAttr = SourceOf(stack[1]))
        /\ (last.op = "WithSourceSkip" /\ last.arg = 0) =>
               (Appended /\ LastAttr = SourceOf(stack[1]))
        /\ (last.op = "New" /\ globalConfig[z.logger].AutoSource) =>
               (Len(z.attrs) >= 1 /\ z.attrs[1] = SourceOf(stack[1]))

\* an Error logger with automatic source, in a function called from
\* main.main, got that function's frame from its constructor and the same
\* frame again from WithSource
C23_Witness ==
    /\ stack = <<FrameApp, FrameMain>>
    /\ z.logger = "Error"
    /\ globalConfig["Error"].AutoSource
    /\ last.op = "WithSource"
    /\ z.attrs = <<SourceOf(FrameApp), SourceOf(FrameApp)>>

\* C24: a collected callstack lists frames innermost first, in caller
\* order, with none moved or repeated. On a stack whose frames all resolve,
\* element k of every callstack attribute, manual or automatic, is frame k
\* of the application's stack counted from the log call site: the first
\* element is the log call site, each following one the caller of the one
\* before, and the first element is the frame the source attribute of the
\* same mode names.
C24_CallStackInCallerOrder ==
    /\ \A i \in CallStackAttrs : \A k \in 1..Len(z.attrs[i].value) :
           /\ k <= Len(stack)
           /\ z.attrs[i].value[k] = FrameText(stack[k])
    /\ (/\ last.op = "New"
        /\ globalConfig[z.logger].AutoSource
        /\ globalConfig[z.logger].AutoCallStack) =>
           /\ Len(z.attrs) = 2
           /\ z.attrs[2].value # <<>>
           /\ z.attrs[2].value[1] = z.attrs[1].value
    /\ (last.op = "WithCallStack" /\ Len(last.pre) >= 1
        /\ last.pre[Len(last.pre)] = SourceOf(stack[1])) =>
           /\ LastAttr.value # <<>>
           /\ LastAttr.value[1] = last.pre[Len(last.pre)].value

\* WithSource and then WithCallStack in a function without symbol that a
\* function called from main.main calls: three frames, the call site first
C24_Witness ==
    /\ stack = <<FrameNoSym, FrameApp, FrameMain>>
    /\ last.op = "WithCallStack"
    /\ z.attrs = <<SourceOf(FrameNoSym),
                   Attr("callstack", "Any",
                        <<FrameText(FrameNoSym), FrameText(FrameApp), FrameText(FrameMain)>>)>>

\* the last call was WithSourceSkip with a skip beyond the stack
SkipBeyondStack == last.op = "WithSourceSkip" /\ last.arg >= Len(stack)

\* C25: a skip that exceeds the stack depth resolves to found = false, every
\* time it is asked; WithSourceSkip then attaches nothing, leaves the builder
\* as it was and returns it, and the chain goes on: the same call again has
\* the same outcome, and a terminal call after it emits the record with the
\* attributes the builder had.
C25_SkipBeyondStackAttachesNothing ==
    /\ [](SkipBeyondStack =>
            /\ ~getSourceString(2 + last.arg,
                                <<FrameGetSourceString, FrameWithSourceSkip>> \o stack).ok
            /\ z.attrs = last.pre
            /\ status = "running"
            /\ sink = <<>> => ENABLED Message(<<"m", "s", "g">>))
    /\ [][(last'.op = "WithSourceSkip" /\ last'.arg >= Len(stack)) =>
              (z' = z /\ status' = "running" /\ sink' = sink)]_vars
    /\ [][(SkipBeyondStack /\ last'.op = "Message") =>
              /\ status' = "running"
              /\ sink' = Append(sink, [level |-> ExpectedLevel(z.logger),
                                       message |-> last'.arg,
                                       attrs |-> last.pre])
              /\ Len(stdout') = Len(stdout) + 1]_vars

\* WithSourceSkip beyond a stack of two frames, on a builder that holds the
\* source attribute of an earlier WithSource, which is all it holds after
C25_Witness ==
    /\ stack = <<FrameApp, FrameMain>>
    /\ last.op = "WithSourceSkip" /\ last.arg = MaxStack
    /\ last.pre = <<SourceOf(FrameApp)>>
    /\ z.attrs = last.pre
    /\ status = "running"

\* the formatted frames the builder holds, in source and callstack attributes
FormattedFrames ==
    {z.attrs[i].value : i \in {j \in 1..Len(z.attrs) : z.attrs[j].key = "source"}}
    \cup UNION {{z.attrs[i].value[k] : k \in 1..Len(z.attrs[i].value)} : i \in CallStackAttrs}

\* the text "#<name> @ ..." has a name of at least one character
HasFunctionName(text) == Len(text) >= 2 /\ text[1] = "#" /\ text[2] # " "

\* C26: a frame that exists but whose function symbol cannot be resolved is
\* still found and is formatted with "?" as function name, "#? @ file:line";
\* so every formatted frame of a source or callstack attribute has a
\* function name that is not empty.
C26_UnresolvedSymbolIsQuestionMark ==
    /\ \A text \in FormattedFrames : HasFunctionName(text)
    /\ (HasLogger /\ last.op = "WithSource" /\ stack[1] = FrameNoSym) =>
           /\ Appended
           /\ LastAttr.value = <<"#", "?", " ", "@", " ", "/", "c", ".", "s", ":", "3">>
    /\ (HasLogger /\ last.op = "WithCallStack" /\ stack[1] = FrameNoSym) =>
           /\ LastAttr.value # <<>>
           /\ LastAttr.value[1] = <<"#", "?", " ", "@", " ", "/", "c", ".", "s", ":", "3">>

\* WithSource called in a function without symbol, on an Info builder that
\* held nothing
C26_Witness ==
    /\ z.logger = "Info"
    /\ stack[1] = FrameNoSym
    /\ last.op = "WithSource" /\ last.pre = <<>>
    /\ z.attrs = <<Attr("source", "String",
                        <<"#", "?", " ", "@", " ", "/", "c", ".", "s", ":", "3">>)>>

\* max(0, n)
AtLeastZero(n) == IF n < 0 THEN 0 ELSE n

C28_CallStackAlwaysAttached ==
    /\ last.op = "WithCallStack" =>
           /\ Appended
           /\ SubSeq(z.attrs, 1, Len(last.pre)) = last.pre
           /\ LastAttr.key = "callstack"
           /\ Len(stack) = 0 \/ z.maxCallStackDepth <= 2 =>
                  LastAttr = Attr("callstack", "Any", <<>>)
    /\ last.op = "New" =>
           /\ Cardinality(CallStackAttrs) =
                  (IF globalConfig[z.logger].AutoCallStack THEN 1 ELSE 0)
           /\ (globalConfig[z.logger].AutoCallStack /\ z.maxCallStackDepth <= 3) =>
                  z.attrs = <<Attr("callstack", "Any", <<>>)>>

\* max depth 2: the constructor and WithCallStack each attached a callstack
\* attribute without frames
C28_Witness ==
    /\ z.maxCallStackDepth = 2
    /\ stack # <<>>
    /\ last.op = "WithCallStack"
    /\ z.attrs = <<Attr("callstack", "Any", <<>>), Attr("callstack", "Any", <<>>)>>

\* the terminal calls that return to the caller
MessageFamily == {"Message", "Msg", "Messagef", "Msgf"}

\* C29: a terminal Message-family call does not close or reset the builder.
\* The call leaves the builder and its attribute sequence as they were; a
\* second terminal call on the builder emits a second record with the same
\* attributes as the first; and an enrichment call made after a terminal
\* call is accepted and appends to the sequence.
C29_TerminalCallKeepsBuilder ==
    /\ [][last'.op \in MessageFamily =>
              /\ z' = z
              /\ status' = "running"
              /\ sink' = Append(sink, [level |-> ExpectedLevel(z.logger),
                                       message |-> Rendered(last'.op, last'.arg),
                                       attrs |-> z.attrs])
              /\ Len(stdout') = Len(stdout) + 1]_vars
    /\ [][(last.op \in MessageFamily /\ last'.op \in MessageFamily) =>
              /\ Len(sink') = Len(sink) + 1
              /\ sink'[Len(sink')].attrs = sink[Len(sink)].attrs
              /\ sink'[Len(sink')].level = sink[Len(sink)].level]_vars
    /\ [][(last.op \in MessageFamily /\ last'.op \in {"KeyValue", "Alert"}) =>
              /\ Len(z'.attrs) = Len(z.attrs) + 1
              /\ SubSeq(z'.attrs, 1, Len(z.attrs)) = z.attrs
              /\ z'.attrs[Len(z'.attrs)].key = KeyOfOp(last'.op, last'.arg)]_vars
    /\ []((last.op \in MessageFamily /\ Len(sink) < MaxSink) =>
              ENABLED Msg(<<"m", "s", "g">>))
    /\ []((last.op \in MessageFamily /\ Len(z.attrs) < MaxAttrs) =>
              ENABLED KeyValue("k", TextValue))

\* a builder with one attribute emitted two records with that attribute and
\* then took a second attribute
C29_Witness ==
    /\ Len(sink) = 2
    /\ sink[1].attrs = <<Attr("k", "String", TextValue)>>
    /\ sink[2].attrs = sink[1].attrs
    /\ last.op = "Alert"
    /\ z.attrs = <<Attr("k", "String", TextValue), Attr("alert", "Bool", TRUE)>>

\* the frames whose function name begins with main.main
NamedLikeMain == {FrameMain, FrameClosure, FrameMainLoop}

\* the first frame of the stack, from the log call site, named like that;
\* the last frame when there is none
FirstStop ==
    LET named == {k \in 1..Len(stack) : stack[k] \in NamedLikeMain}
    IN IF named = {} THEN Len(stack)
       ELSE CHOOSE k \in named : \A j \in named : k <= j

====
